---- MODULE Spec2Model ----
(***************************************************************************)
(* Model of the streaming fan-out pipeline of mixpanel.go: ExportDate (the *)
(* router), eventHandler (one worker goroutine per event type), the        *)
(* unbuffered per-type channels, and the caller-owned output channel with  *)
(* its consumer.                                                           *)
(*                                                                         *)
(* The decoder is modelled as filling both fields of JSONEvent from the    *)
(* stream element, and each stream element carries a properties object     *)
(* (the inbound stream format).  A record without an "event" member        *)
(* decodes to the zero value "" of `event`.                                *)
(***************************************************************************)
EXTENDS Integers, Sequences, FiniteSets, TLC

\* ---- bounds -------------------------------------------------------------
MaxLen == 3        \* records decoded from the source in one export call
MaxOutCap == 1     \* buffer size of the caller's output channel when it is buffered

\* ---- values -------------------------------------------------------------
Absent == "<absent>"          \* a key that is not in a map
Unencodable == "<chan>"       \* a value json.Encoder rejects
Product == "app"              \* m.Product
Events == {"", "a", "b"}      \* event-type identifiers; "" = missing field
KeyOrder == <<"event", "product", "x">>   \* map keys, in encoding order
Keys == {KeyOrder[i] : i \in 1..Len(KeyOrder)}

\* properties objects the JSON decoder can produce
PlainProps == [k \in Keys |-> IF k = "x" THEN "u1" ELSE Absent]
ClobberProps == [k \in Keys |->
                   IF k = "x" THEN "u2" ELSE IF k = "product" THEN "old" ELSE "zzz"]
\* the stream elements the decoder is given: records of two event types, a
\* record without event type, and a record that already holds the reserved keys
Elements ==
  {[event |-> "", properties |-> PlainProps],
   [event |-> "a", properties |-> PlainProps],
   [event |-> "a", properties |-> ClobberProps],
   [event |-> "b", properties |-> PlainProps]}
\* a properties object holding a value the encoder returns an error for
FaultProps == [k \in Keys |-> IF k = "x" THEN Unencodable ELSE Absent]
FaultElements == Elements \cup {[event |-> "a", properties |-> FaultProps]}

NoEv == [event |-> "", properties |-> PlainProps, idx |-> 0]

VARIABLES
  pc,          \* position of ExportDate: get, decode, send, closing, returned, panicked
  err,         \* the panic value of ExportDate: none, transport, decode
  decoded,     \* records decoded so far, in stream order
  ev,          \* the record of the current loop iteration (idx = 0: none)
  eventChans,  \* event type -> state of its channel (open/closed)
  wpc,         \* per event type, position of its eventHandler goroutine
  wbuf,        \* per event type, the message the handler is about to send
  enq,         \* indices of the records handed to a handler, in order
  outCap,      \* capacity of outChan (0 = unbuffered)
  outChan,     \* messages buffered in outChan
  received,    \* messages received by the consumer of outChan, in order
  started,     \* event types of the go m.eventHandler statements run, in order
  \* building and signing the request (lines 70-88)
  spc,         \* position in the request part: off, makeArgs, more, start, end, sign, get, issued
  secret,      \* m.Secret
  day,         \* date.Format("2006-01-02")
  moreArgs,    \* the caller's extra parameters: key -> values
  todo,        \* keys of moreArgs the range loop has not visited yet
  args,        \* the url.Values being built: entries in the order they were inserted
  hashed,      \* what addSignature wrote to the hash before the secret
  query        \* the query string of the request that was issued

pipeVars == <<pc, err, decoded, ev, eventChans, wpc, wbuf, enq, outCap, outChan, received, started>>
signVars == <<spc, secret, day, moreArgs, todo, args, hashed, query>>
vars == <<pipeVars, signVars>>

NoMsg == [bytes |-> <<>>, src |-> 0]

\* ---- pure functions -----------------------------------------------------

\* variant: keeps a pre-existing product/event key (merge instead of overwrite)
EnrichKeepExisting(props, event) ==
  [k \in Keys |-> IF k = "product" /\ props[k] = Absent THEN Product
                  ELSE IF k = "event" /\ props[k] = Absent THEN event
                  ELSE props[k]]

\* props["product"] = m.Product; props["event"] = event
Enrich(props, event) ==
  [props EXCEPT !["product"] = Product, !["event"] = event]

\* json.Encoder.Encode into a bytes.Buffer: an object with the present keys
\* in sorted order; on an unsupported value nothing is written.
Encode(props) ==
  IF \E k \in Keys : props[k] = Unencodable
    THEN <<>>
    ELSE LET present == SelectSeq(KeyOrder, LAMBDA k : props[k] # Absent)
         IN  [i \in 1..Len(present) |-> <<present[i], props[present[i]]>>]

\* the value of member k of an encoded object (Absent if it has none)
Member(bytes, k) ==
  IF \E i \in 1..Len(bytes) : bytes[i][1] = k
    THEN bytes[CHOOSE i \in 1..Len(bytes) : bytes[i][1] = k][2]
    ELSE Absent

\* ---- the request: makeArgs, moreArgs, start/end, addSignature ------------

ApiKey == "key"                       \* m.Key
Secrets == {"s1", "s2"}               \* values of m.Secret
Days == {"d1", "d2"}                  \* values of date.Format("2006-01-02")
Times == {"t1", "t2"}                 \* values of string(time.Now().Unix()+10000)

\* parameter names in the order sort.Strings gives them
ParamOrder == <<"api_key", "end", "event", "expire", "format", "sig", "start", "where">>

\* extra parameters a caller passes (nil behaves as the empty map)
MoreArgsSamples ==
  { <<>>,
    "where" :> <<"w">>,
    ("start" :> <<"d0">>) @@ ("end" :> <<"d0">>),
    ("event" :> <<"e1", "e2">>) @@ ("where" :> <<"w">>),
    ("sig" :> <<"fake">>) @@ ("format" :> <<"csv">>) }

\* url.Values: a map from key to values. An entry list keeps the order in
\* which the keys were inserted, which stands for the layout of the Go map.
HasKey(v, k) == \E i \in 1..Len(v) : v[i].k = k
KeyIdx(v, k) == CHOOSE i \in 1..Len(v) : v[i].k = k

\* Values.Set: replace the values of k by the single value x
ValuesSet(v, k, x) ==
  IF HasKey(v, k)
    THEN [v EXCEPT ![KeyIdx(v, k)].vs = <<x>>]
    ELSE Append(v, [k |-> k, vs |-> <<x>>])

\* Values.Add: append x to the values of k
ValuesAdd(v, k, x) ==
  IF HasKey(v, k)
    THEN [v EXCEPT ![KeyIdx(v, k)].vs = Append(@, x)]
    ELSE Append(v, [k |-> k, vs |-> <<x>>])

\* for _, v := range vs { args.Add(k, v) }
RECURSIVE ValuesAddAll(_, _, _)
ValuesAddAll(v, k, xs) ==
  IF xs = <<>> THEN v ELSE ValuesAddAll(ValuesAdd(v, k, Head(xs)), k, Tail(xs))

\* the pairs k=x of one entry
EntryPairs(entry) == [i \in 1..Len(entry.vs) |-> <<entry.k, entry.vs[i]>>]

RECURSIVE ConcatPairs(_)
ConcatPairs(entries) ==
  IF entries = <<>> THEN <<>>
  ELSE EntryPairs(Head(entries)) \o ConcatPairs(Tail(entries))

\* variant: the pairs in the order of the map's layout, keys not sorted
ValuesEncodeUnsorted(v) == ConcatPairs(v)

\* Values.Encode: the pairs k=x, sorted by key, values of one key in order
ValuesEncode(v) ==
  LET keys == SelectSeq(ParamOrder, LAMBDA k : HasKey(v, k))
  IN  ConcatPairs([i \in 1..Len(keys) |-> v[KeyIdx(v, keys[i])]])

\* md5 is modelled by a positional checksum of the text written to the hash;
\* string(hash.Sum(nil)) is one of the strings of DigestText.
Tokens ==
  <<"api_key", "end", "event", "expire", "format", "sig", "start", "where",
    "json", "csv", "key", "t1", "t2", "d0", "d1", "d2", "w", "e1", "e2",
    "fake", "s1", "s2">>
DigestText ==
  <<"h00", "h01", "h02", "h03", "h04", "h05", "h06", "h07", "h08", "h09",
     "h10", "h11", "h12", "h13", "h14", "h15", "h16", "h17", "h18", "h19",
     "h20", "h21", "h22", "h23", "h24", "h25", "h26", "h27", "h28", "h29",
     "h30", "h31", "h32", "h33", "h34", "h35", "h36", "h37", "h38", "h39",
     "h40", "h41", "h42", "h43", "h44", "h45", "h46", "h47", "h48", "h49",
     "h50", "h51", "h52", "h53", "h54", "h55", "h56", "h57", "h58", "h59",
     "h60", "h61", "h62", "h63", "h64", "h65", "h66", "h67", "h68", "h69",
     "h70", "h71", "h72", "h73", "h74", "h75", "h76", "h77", "h78", "h79",
     "h80", "h81", "h82", "h83", "h84", "h85", "h86", "h87", "h88", "h89",
     "h90", "h91", "h92", "h93", "h94", "h95", "h96">>

\* the number a piece of text contributes to the checksum
TokenCode(t) ==
  LET all == Tokens \o DigestText
  IN  CHOOSE i \in 1..Len(all) : all[i] = t

RECURSIVE HashWrite(_, _)
HashWrite(h, pairs) ==
  IF pairs = <<>> THEN h
  ELSE HashWrite((((h * 31 + TokenCode(pairs[1][1])) * 31) + TokenCode(pairs[1][2]))
                   % Len(DigestText),
                 Tail(pairs))

\* io.WriteString(hash, encoded); io.WriteString(hash, secret); hash.Sum(nil)
MD5(pairs, s) ==
  DigestText[((HashWrite(7, pairs) * 31 + TokenCode(s)) % Len(DigestText)) + 1]

\* addSignature: args.Set("sig", md5(args.Encode() + m.Secret))
AddSignature(v, s) == ValuesSet(v, "sig", MD5(ValuesEncode(v), s))

\* makeArgs: format, api_key, expire
MakeArgs(t) ==
  ValuesSet(ValuesSet(ValuesSet(<<>>, "format", "json"), "api_key", ApiKey), "expire", t)

\* the values of key k in an encoded query
QueryValues(q, k) ==
  LET hits == SelectSeq(q, LAMBDA pr : pr[1] = k)
  IN  [i \in 1..Len(hits) |-> hits[i][2]]

\* the request part is over (or not looked at): the state it leaves behind
RequestDone ==
  /\ spc = "off"
  /\ secret = "s1"
  /\ day = "d1"
  /\ moreArgs = <<>>
  /\ todo = {}
  /\ args = <<>>
  /\ hashed = <<>>
  /\ query = <<>>

\* ---- initial state ------------------------------------------------------
Init ==
  /\ pc = "get"
  /\ err = "none"
  /\ decoded = <<>>
  /\ ev = NoEv
  /\ eventChans = <<>>
  /\ wpc = [e \in Events |-> "none"]
  /\ wbuf = [e \in Events |-> NoMsg]
  /\ enq = <<>>
  /\ outCap \in {0, MaxOutCap}   \* unbuffered, or buffered
  /\ outChan = <<>>
  /\ received = <<>>
  /\ started = <<>>
  /\ RequestDone

\* ---- ExportDate ---------------------------------------------------------

\* http.Get succeeds
GetOk ==
  /\ pc = "get"
  /\ pc' = "decode"
  /\ UNCHANGED <<started, err, decoded, ev, eventChans, wpc, wbuf, enq, outCap, outChan, received>>
  /\ UNCHANGED signVars

\* variant: the error of http.Get is noted but the call goes on
GetFailIgnored ==
  /\ pc = "get"
  /\ pc' = "decode"
  /\ err' = "transport"
  /\ UNCHANGED <<started, decoded, ev, eventChans, wpc, wbuf, enq, outCap, outChan, received>>
  /\ UNCHANGED signVars

\* http.Get returns an error: panic
GetFail ==
  /\ pc = "get"
  /\ pc' = "panicked"
  /\ err' = "transport"
  /\ UNCHANGED <<started, decoded, ev, eventChans, wpc, wbuf, enq, outCap, outChan, received>>
  /\ UNCHANGED signVars

\* variant: no lookup in eventChans, every record gets a new channel and handler
DecodeRecordAlwaysSpawn(elements) ==
  /\ pc = "decode"
  /\ Len(decoded) < MaxLen
  /\ \E rec \in elements :
       LET e == rec.event IN
       /\ decoded' = Append(decoded, rec)
       /\ ev' = [event |-> e, properties |-> rec.properties, idx |-> Len(decoded) + 1]
       /\ eventChans' = [k \in DOMAIN eventChans \cup {e} |->
                           IF k = e THEN "open" ELSE eventChans[k]]
       /\ wpc' = [wpc EXCEPT ![e] = "recv"]
       /\ started' = Append(started, e)
  /\ pc' = "send"
  /\ UNCHANGED <<err, wbuf, enq, outCap, outChan, received>>
  /\ UNCHANGED signVars

\* variant: the send to the handler runs in its own goroutine, so the loop
\* decodes the next record while the previous one is still waiting
DecodeRecordAsync(elements) ==
  /\ pc \in {"decode", "send"}
  /\ Len(decoded) < MaxLen
  /\ \E rec \in elements :
       LET e == rec.event IN
       /\ decoded' = Append(decoded, rec)
       /\ ev' = [event |-> e, properties |-> rec.properties, idx |-> Len(decoded) + 1]
       /\ IF e \in DOMAIN eventChans
            THEN UNCHANGED <<eventChans, wpc, started>>
            ELSE /\ eventChans' = [k \in DOMAIN eventChans \cup {e} |->
                                     IF k = e THEN "open" ELSE eventChans[k]]
                 /\ wpc' = [wpc EXCEPT ![e] = "recv"]
                 /\ started' = Append(started, e)
  /\ pc' = "send"
  /\ UNCHANGED <<err, wbuf, enq, outCap, outChan, received>>
  /\ UNCHANGED signVars

\* decoder.Decode returns a record; the router looks its type up in
\* eventChans and, on a miss, makes the channel and starts the handler.
DecodeRecord(elements) ==
  /\ pc = "decode"
  /\ Len(decoded) < MaxLen
  /\ \E rec \in elements :
       LET e == rec.event IN
       /\ decoded' = Append(decoded, rec)
       /\ ev' = [event |-> e, properties |-> rec.properties, idx |-> Len(decoded) + 1]
       /\ IF e \in DOMAIN eventChans
            THEN UNCHANGED <<eventChans, wpc, started>>
            ELSE /\ eventChans' = [k \in DOMAIN eventChans \cup {e} |->
                                     IF k = e THEN "open" ELSE eventChans[k]]
                 /\ wpc' = [wpc EXCEPT ![e] = "recv"]
                 /\ started' = Append(started, e)
  /\ pc' = "send"
  /\ UNCHANGED <<err, wbuf, enq, outCap, outChan, received>>
  /\ UNCHANGED signVars

\* variant: the io.EOF test comes after the dispatch, so the zero-valued
\* record of the last iteration is dispatched before the loop is left
DecodeEOFDispatch ==
  /\ pc = "decode"
  /\ pc' = "closing"
  /\ IF "" \in DOMAIN eventChans
       THEN UNCHANGED <<eventChans, wpc, started>>
       ELSE /\ eventChans' = [k \in DOMAIN eventChans \cup {""} |->
                                IF k = "" THEN "open" ELSE eventChans[k]]
            /\ wpc' = [wpc EXCEPT ![""] = "recv"]
            /\ started' = Append(started, "")
  /\ UNCHANGED <<err, decoded, ev, wbuf, enq, outCap, outChan, received>>
  /\ UNCHANGED signVars

\* decoder.Decode returns io.EOF: leave the loop
DecodeEOF ==
  /\ pc = "decode"
  /\ pc' = "closing"
  /\ UNCHANGED <<started, err, decoded, ev, eventChans, wpc, wbuf, enq, outCap, outChan, received>>
  /\ UNCHANGED signVars

\* variant: a decode error is noted and the loop continues (skip and continue)
DecodeErrorSkip ==
  /\ pc = "decode"
  /\ pc' = "decode"
  /\ err' = "decode"
  /\ UNCHANGED <<started, decoded, ev, eventChans, wpc, wbuf, enq, outCap, outChan, received>>
  /\ UNCHANGED signVars

\* decoder.Decode returns another error: panic(err)
DecodeError ==
  /\ pc = "decode"
  /\ pc' = "panicked"
  /\ err' = "decode"
  /\ UNCHANGED <<started, decoded, ev, eventChans, wpc, wbuf, enq, outCap, outChan, received>>
  /\ UNCHANGED signVars

\* variant: the record is sent on the channel of whichever registered type
\* has a handler ready, not on the channel of its own type
EnqueueMisroute(e) ==
  /\ pc = "send"
  /\ ev.event = e
  /\ \E k \in DOMAIN eventChans :
       /\ eventChans[k] = "open"
       /\ wpc[k] = "recv"
       /\ wbuf' = [wbuf EXCEPT ![k] = [bytes |-> Encode(Enrich(ev.properties, k)),
                                       src |-> ev.idx]]
       /\ wpc' = [wpc EXCEPT ![k] = "send"]
  /\ enq' = Append(enq, ev.idx)
  /\ ev' = NoEv
  /\ pc' = "decode"
  /\ UNCHANGED <<started, err, decoded, eventChans, outCap, outChan, received>>
  /\ UNCHANGED signVars

\* eventChan <- ev.properties meets props, ok := <-jsonChan (unbuffered);
\* the handler then enriches and encodes the record.
Enqueue(e) ==
  /\ pc = "send"
  /\ ev.event = e
  /\ e \in DOMAIN eventChans
  /\ eventChans[e] = "open"
  /\ wpc[e] = "recv"
  /\ wbuf' = [wbuf EXCEPT ![e] = [bytes |-> Encode(Enrich(ev.properties, e)),
                                  src |-> ev.idx]]
  /\ wpc' = [wpc EXCEPT ![e] = "send"]
  /\ enq' = Append(enq, ev.idx)
  /\ ev' = NoEv
  /\ pc' = "decode"
  /\ UNCHANGED <<started, err, decoded, eventChans, outCap, outChan, received>>
  /\ UNCHANGED signVars

\* variant: a channel is closed while the decode loop is still running
CloseChanEarly(e) ==
  /\ pc \in {"closing", "decode"}
  /\ e \in DOMAIN eventChans
  /\ eventChans[e] = "open"
  /\ eventChans' = [eventChans EXCEPT ![e] = "closed"]
  /\ UNCHANGED <<started, pc, err, decoded, ev, wpc, wbuf, enq, outCap, outChan, received>>
  /\ UNCHANGED signVars

\* one iteration of: for _, ch := range eventChans { close(ch) }
CloseChan(e) ==
  /\ pc = "closing"
  /\ e \in DOMAIN eventChans
  /\ eventChans[e] = "open"
  /\ eventChans' = [eventChans EXCEPT ![e] = "closed"]
  /\ UNCHANGED <<started, pc, err, decoded, ev, wpc, wbuf, enq, outCap, outChan, received>>
  /\ UNCHANGED signVars

\* variant: the close loop can be left before every channel is closed
ReturnEarly ==
  /\ pc = "closing"
  /\ pc' = "returned"
  /\ UNCHANGED <<started, err, decoded, ev, eventChans, wpc, wbuf, enq, outCap, outChan, received>>
  /\ UNCHANGED signVars

\* the range loop is over: ExportDate returns
Return ==
  /\ pc = "closing"
  /\ \A e \in DOMAIN eventChans : eventChans[e] = "closed"
  /\ pc' = "returned"
  /\ UNCHANGED <<started, err, decoded, ev, eventChans, wpc, wbuf, enq, outCap, outChan, received>>
  /\ UNCHANGED signVars

\* ---- eventHandler -------------------------------------------------------

\* variant: the handler leaves its loop whenever no record is waiting
WorkerExitOnIdle(e) ==
  /\ wpc[e] = "recv"
  /\ e \in DOMAIN eventChans
  /\ wpc' = [wpc EXCEPT ![e] = "exited"]
  /\ UNCHANGED <<started, pc, err, decoded, ev, eventChans, wbuf, enq, outCap, outChan, received>>
  /\ UNCHANGED signVars

\* props, ok := <-jsonChan on a closed channel: !ok, break
WorkerExit(e) ==
  /\ wpc[e] = "recv"
  /\ e \in DOMAIN eventChans
  /\ eventChans[e] = "closed"
  /\ wpc' = [wpc EXCEPT ![e] = "exited"]
  /\ UNCHANGED <<started, pc, err, decoded, ev, eventChans, wbuf, enq, outCap, outChan, received>>
  /\ UNCHANGED signVars

\* variant: a non-blocking send (select with default) that gives the
\* message up when outChan has no free slot
WorkerSendNonBlocking(e) ==
  /\ wpc[e] = "send"
  /\ outChan' = IF Len(outChan) < outCap THEN Append(outChan, wbuf[e]) ELSE outChan
  /\ wbuf' = [wbuf EXCEPT ![e] = NoMsg]
  /\ wpc' = [wpc EXCEPT ![e] = "recv"]
  /\ UNCHANGED <<started, pc, err, decoded, ev, eventChans, enq, outCap, received>>
  /\ UNCHANGED signVars

\* output <- buf.Bytes() into a free slot of a buffered outChan
WorkerSend(e) ==
  /\ wpc[e] = "send"
  /\ Len(outChan) < outCap
  /\ outChan' = Append(outChan, wbuf[e])
  /\ wbuf' = [wbuf EXCEPT ![e] = NoMsg]
  /\ wpc' = [wpc EXCEPT ![e] = "recv"]
  /\ UNCHANGED <<started, pc, err, decoded, ev, eventChans, enq, outCap, received>>
  /\ UNCHANGED signVars

\* output <- buf.Bytes() handed directly to the waiting consumer
WorkerHandoff(e) ==
  /\ wpc[e] = "send"
  /\ outChan = <<>>
  /\ received' = Append(received, wbuf[e])
  /\ wbuf' = [wbuf EXCEPT ![e] = NoMsg]
  /\ wpc' = [wpc EXCEPT ![e] = "recv"]
  /\ UNCHANGED <<started, pc, err, decoded, ev, eventChans, enq, outCap, outChan>>
  /\ UNCHANGED signVars

\* ---- consumer of outChan ------------------------------------------------
SinkRecv ==
  /\ outChan # <<>>
  /\ received' = Append(received, Head(outChan))
  /\ outChan' = Tail(outChan)
  /\ UNCHANGED <<started, pc, err, decoded, ev, eventChans, wpc, wbuf, enq, outCap>>
  /\ UNCHANGED signVars

\* ---- specifications -----------------------------------------------------
Router(elements) ==
  \/ GetOk
  \/ GetFail
  \/ DecodeRecord(elements)
  \/ DecodeEOF
  \/ DecodeError
  \/ \E e \in Events : Enqueue(e)
  \/ \E e \in Events : CloseChan(e)
  \/ Return

Workers ==
  \/ \E e \in Events : WorkerExit(e)
  \/ \E e \in Events : WorkerSend(e)
  \/ \E e \in Events : WorkerHandoff(e)

Next == Router(Elements) \/ Workers \/ SinkRecv

Spec == Init /\ [][Next]_vars

\* the same pipeline when json.Encoder can return an error for a record
NextFault == Router(FaultElements) \/ Workers \/ SinkRecv

SpecFault == Init /\ [][NextFault]_vars

\* goroutines that can run do run, and the consumer keeps receiving
Fairness ==
  /\ WF_vars(Router(Elements))
  /\ \A e \in Events : WF_vars(WorkerExit(e) \/ WorkerSend(e) \/ WorkerHandoff(e))
  /\ WF_vars(SinkRecv)

FairSpec == Spec /\ Fairness

\* ---- ExportDate, lines 70-88: the signed request ------------------------

SignInit ==
  /\ pc = "get"
  /\ err = "none"
  /\ decoded = <<>>
  /\ ev = NoEv
  /\ eventChans = <<>>
  /\ wpc = [e \in Events |-> "none"]
  /\ wbuf = [e \in Events |-> NoMsg]
  /\ enq = <<>>
  /\ outCap = 0
  /\ outChan = <<>>
  /\ received = <<>>
  /\ started = <<>>
  /\ spc = "makeArgs"
  /\ secret \in Secrets
  /\ day \in Days
  /\ moreArgs \in MoreArgsSamples
  /\ todo = DOMAIN moreArgs
  /\ args = <<>>
  /\ hashed = <<>>
  /\ query = <<>>

\* args := m.MakeArgs()
MakeArgsStep ==
  /\ spc = "makeArgs"
  /\ \E t \in Times : args' = MakeArgs(t)
  /\ spc' = "more"
  /\ UNCHANGED <<secret, day, moreArgs, todo, hashed, query>>
  /\ UNCHANGED pipeVars

\* one key of: for k, vs := range *moreArgs { for _, v := range vs { args.Add(k, v) } }
AddMore(k) ==
  /\ spc = "more"
  /\ k \in todo
  /\ args' = ValuesAddAll(args, k, moreArgs[k])
  /\ todo' = todo \ {k}
  /\ UNCHANGED <<spc, secret, day, moreArgs, hashed, query>>
  /\ UNCHANGED pipeVars

\* variant: start is added to the values already there
SetStartAdd ==
  /\ spc = "more"
  /\ todo = {}
  /\ args' = ValuesAdd(args, "start", day)
  /\ spc' = "end"
  /\ UNCHANGED <<secret, day, moreArgs, todo, hashed, query>>
  /\ UNCHANGED pipeVars

\* args.Set("start", day), once the range loop is over
SetStart ==
  /\ spc = "more"
  /\ todo = {}
  /\ args' = ValuesSet(args, "start", day)
  /\ spc' = "end"
  /\ UNCHANGED <<secret, day, moreArgs, todo, hashed, query>>
  /\ UNCHANGED pipeVars

\* args.Set("end", day)
SetEnd ==
  /\ spc = "end"
  /\ args' = ValuesSet(args, "end", day)
  /\ spc' = "sign"
  /\ UNCHANGED <<secret, day, moreArgs, todo, hashed, query>>
  /\ UNCHANGED pipeVars

\* m.AddSignature(&args)
Sign ==
  /\ spc = "sign"
  /\ hashed' = ValuesEncode(args)
  /\ args' = AddSignature(args, secret)
  /\ spc' = "get"
  /\ UNCHANGED <<secret, day, moreArgs, todo, query>>
  /\ UNCHANGED pipeVars

\* http.Get(fmt.Sprintf("%s/2.0/export?%s", m.BaseURL, args.Encode()))
Issue ==
  /\ spc = "get"
  /\ query' = ValuesEncode(args)
  /\ spc' = "issued"
  /\ UNCHANGED <<secret, day, moreArgs, todo, args, hashed>>
  /\ UNCHANGED pipeVars

SignNext ==
  \/ MakeArgsStep
  \/ \E k \in DOMAIN moreArgs : AddMore(k)
  \/ SetStart
  \/ SetEnd
  \/ Sign
  \/ Issue

SignSpec == SignInit /\ [][SignNext]_vars

\* ---- vocabulary of the properties ---------------------------------------
SeqRange(s) == {s[i] : i \in 1..Len(s)}

TypeOK ==
  /\ pc \in {"get", "decode", "send", "closing", "returned", "panicked"}
  /\ err \in {"none", "transport", "decode"}
  /\ Len(decoded) <= MaxLen
  /\ SeqRange(decoded) \subseteq FaultElements
  /\ DOMAIN eventChans \subseteq Events
  /\ \A e \in Events : wpc[e] \in {"none", "recv", "send", "exited"}
  /\ Len(outChan) <= outCap

\* messages whose send on outChan has completed, oldest first
Written == received \o outChan

\* messages held by a handler, buffered in outChan or received
Produced == SeqRange(Written) \cup {wbuf[e] : e \in {k \in Events : wpc[k] = "send"}}

\* event type of the input record a message was made from
TypeOf(msg) == decoded[msg.src].event

Spawned == {e \in Events : wpc[e] # "none"}

\* no decoded record lacks its event type or fails to encode
NoRecordFailure ==
  \A i \in 1..Len(decoded) :
    /\ decoded[i].event # ""
    /\ \A k \in Keys : decoded[i].properties[k] # Unencodable

\* every decoded record has been received exactly once
AllReceivedOnce ==
  /\ Len(received) = Len(decoded)
  /\ {received[i].src : i \in 1..Len(received)} = 1..Len(decoded)

\* ---- C1 ------------------------------------------------------------------
\* C1: two records of the same event type are received from the output
\* channel in the order in which they were decoded.
C1_FifoPerType ==
  \A i, j \in 1..Len(received) :
    (i < j /\ TypeOf(received[i]) = TypeOf(received[j]))
      => received[i].src < received[j].src

C1_Witness ==
  \E i, j, k \in 1..Len(received) :
    /\ i < k /\ k < j
    /\ TypeOf(received[i]) = TypeOf(received[j])
    /\ TypeOf(received[k]) # TypeOf(received[i])

C3_Enriched ==
  \A msg \in SeqRange(Written) :
    /\ Member(msg.bytes, "product") = Product
    /\ Member(msg.bytes, "event") = TypeOf(msg)
    /\ \A k \in Keys \ {"product", "event"} :
         Member(msg.bytes, k) = decoded[msg.src].properties[k]

C3_Witness ==
  \E i \in 1..Len(received) :
    /\ decoded[received[i].src].properties["product"] = "old"
    /\ decoded[received[i].src].properties["event"] = "zzz"
    /\ TypeOf(received[i]) = "a"

\* ---- C4 ------------------------------------------------------------------
\* C4: when ExportDate has returned, every handler it started has exited
\* (so no write to the output channel can follow the return).
C4_JoinedOnReturn ==
  pc = "returned" => \A e \in Spawned : wpc[e] = "exited"

\* ---- C5 ------------------------------------------------------------------
\* C5: after a decode error the call has failed for good: the router decodes
\* and enqueues nothing more, and no message exists for an element beyond
\* the records decoded before the error.
C5_DecodeErrorTerminal ==
  /\ [][err = "decode" =>
          /\ pc = "panicked" /\ pc' = "panicked"
          /\ decoded' = decoded /\ enq' = enq /\ ev' = ev
          /\ eventChans' = eventChans]_vars
  /\ [](err = "decode" =>
          /\ pc = "panicked"
          /\ \A msg \in Produced : msg.src \in 1..Len(decoded))

C5_Witness ==
  /\ err = "decode"
  /\ Len(decoded) >= 2
  /\ Len(received) >= 2

\* ---- C6 ------------------------------------------------------------------
\* C6: a record with an empty event type gets no handler, is not enqueued
\* and yields no output message.
C6_EmptyTypeExcluded ==
  /\ "" \notin DOMAIN eventChans
  /\ \A i \in SeqRange(enq) : decoded[i].event # ""
  /\ \A msg \in Produced : TypeOf(msg) # ""

\* ---- C7 ------------------------------------------------------------------
\* C7: when the first decode meets end-of-stream, no handler and no channel
\* exists, nothing was written, no failure is raised and the call returns.
C7_EmptyStream ==
  (pc \in {"closing", "returned"} /\ decoded = <<>>) =>
    /\ DOMAIN eventChans = {}
    /\ Spawned = {}
    /\ Written = <<>>
    /\ err = "none"
    /\ (pc = "closing" => ENABLED Return)

C7_Witness ==
  /\ pc = "returned"
  /\ decoded = <<>>

C10_TransportFailure ==
  err = "transport" =>
    /\ pc = "panicked"
    /\ decoded = <<>>
    /\ DOMAIN eventChans = {}
    /\ Spawned = {}
    /\ Produced = {}

C10_Witness ==
  /\ err = "transport"
  /\ pc = "panicked"

\* ---- C11 -----------------------------------------------------------------
SwapEntries(v, i, j) == [v EXCEPT ![i] = v[j], ![j] = v[i]]
SigOf(v) == v[KeyIdx(v, "sig")].vs

\* C11: the sig attached to a parameter mapping does not depend on the
\* order in which its keys were inserted: the same mapping laid out in
\* another order gets the same sig, for every secret.
C11_SigIndependentOfOrder ==
  \A s \in Secrets : \A i, j \in 1..Len(args) :
    SigOf(AddSignature(SwapEntries(args, i, j), s)) = SigOf(AddSignature(args, s))

C11_Witness ==
  /\ spc = "get"
  /\ Len(args) >= 7
  /\ \E i, j \in 1..Len(args) :
       /\ i < j
       /\ \E a, b \in 1..Len(ParamOrder) :
            a > b /\ ParamOrder[a] = args[i].k /\ ParamOrder[b] = args[j].k
  /\ SigOf(args) = <<MD5(hashed, secret)>>

\* ---- C17 -----------------------------------------------------------------
NotSig(q) == SelectSeq(q, LAMBDA pr : pr[1] # "sig")

\* C17: once signed the parameters never change, and the issued query holds
\* one sig, the digest of all its other parameters (base, extra, start, end)
\* and the secret, with start and end equal to the requested day alone.
C17_SignedLast ==
  /\ [][(spc = "get" \/ spc = "issued") => args' = args]_vars
  /\ [](spc = "issued" =>
          /\ QueryValues(query, "sig") = <<MD5(hashed, secret)>>
          /\ NotSig(query) = NotSig(hashed)
          /\ QueryValues(query, "start") = <<day>>
          /\ QueryValues(query, "end") = <<day>>
          /\ QueryValues(hashed, "start") = <<day>>
          /\ QueryValues(hashed, "end") = <<day>>
          /\ QueryValues(hashed, "api_key") = <<ApiKey>>
          /\ Len(QueryValues(hashed, "expire")) = 1
          /\ QueryValues(hashed, "format")[1] = "json"
          /\ \A k \in DOMAIN moreArgs \ {"start", "end"} :
               \A n \in 1..Len(moreArgs[k]) :
                 \E m \in 1..Len(QueryValues(hashed, k)) :
                   QueryValues(hashed, k)[m] = moreArgs[k][n])

C17_Witness ==
  /\ spc = "issued"
  /\ "start" \in DOMAIN moreArgs
  /\ moreArgs["start"] # <<day>>
  /\ QueryValues(query, "start") = <<day>>

\* ---- C12 -----------------------------------------------------------------
\* event types of the records decoded so far
Observed == {decoded[i].event : i \in 1..Len(decoded)}

\* C12: the registry's keys are exactly the event types decoded so far, each
\* with one channel and one handler; a handler is started only for the type
\* of the record just decoded, and only if that type was never seen before.
C12_OneWorkerPerType ==
  /\ [](/\ DOMAIN eventChans = Observed
        /\ Spawned = Observed
        /\ SeqRange(started) = Observed
        /\ Len(started) = Cardinality(Observed))
  /\ [][started' # started =>
          /\ started' = Append(started, ev'.event)
          /\ ev'.event \notin DOMAIN eventChans
          /\ ev'.event \notin Observed]_vars

C12_Witness ==
  /\ Len(decoded) = 3
  /\ Cardinality(Observed) = 2
  /\ decoded[1].event = decoded[3].event
  /\ Len(enq) = 3

\* ---- C13 -----------------------------------------------------------------
\* C13: when the call has ended, by return or by panic, every registered
\* channel is closed and its handler has exited.
C13_AllDestroyedAtEnd ==
  pc \in {"returned", "panicked"} =>
    \A e \in DOMAIN eventChans : eventChans[e] = "closed" /\ wpc[e] = "exited"

C15_Backpressure ==
  [][decoded' # decoded =>
       /\ pc = "decode"
       /\ ev = NoEv
       /\ Len(enq) = Len(decoded)]_vars

C15_Witness ==
  /\ pc = "send"
  /\ wpc[ev.event] = "send"
  /\ Len(decoded) < MaxLen

\* ---- C16 -----------------------------------------------------------------
\* C16: a record is enqueued only while no channel is closed; a channel goes
\* from open to closed only after end-of-stream and never back.
C16_NoEnqueueAfterClose ==
  /\ [][enq' # enq => \A e \in DOMAIN eventChans : eventChans[e] = "open"]_vars
  /\ [][\A e \in DOMAIN eventChans :
          /\ eventChans[e] = "closed" => eventChans'[e] = "closed"
          /\ (eventChans[e] = "open" /\ eventChans'[e] = "closed") => pc = "closing"]_vars

C16_Witness ==
  /\ pc = "closing"
  /\ Len(enq) >= 2
  /\ \E e, f \in DOMAIN eventChans : eventChans[e] = "closed" /\ eventChans[f] = "open"

\* ---- C18 -----------------------------------------------------------------
\* records of type e that are not among the messages of seq
Missing(e, seq) ==
  {i \in 1..Len(decoded) :
     decoded[i].event = e /\ \A n \in 1..Len(seq) : seq[n].src # i}

====
